---- MODULE Spec2Model ----
(***************************************************************************)
(* Model of the MouseListener utility library (src/src/index.js).          *)
(*                                                                         *)
(* Each utility is an independent component; each gets its own variables   *)
(* and its own specification:                                              *)
(*   SpecClickCounter  - class ClickCounter  (index.js 436-478)            *)
(*   SpecDragAndDrop   - class DragAndDrop   (index.js 139-207)            *)
(* The host (browser) is modelled by the event actions: an event is        *)
(* dispatched to the handlers registered with addEventListener, which      *)
(* keeps at most one registration of a given handler per event type.       *)
(***************************************************************************)
EXTENDS Integers, Sequences, FiniteSets, TLC

(***************************************************************************)
(* Bounds of the model.                                                    *)
(***************************************************************************)
\* Dense clock values 0..MaxTime (milliseconds).
MaxTime == 4
\* Number of click events dispatched in one behaviour.
MaxClicks == 3

\* Number of move events dispatched during one drag gesture.
MaxMoves == 2
\* Number of presses dispatched in one behaviour.
MaxPresses == 2
\* Number of move/release events dispatched outside a gesture, per gesture.
MaxIdleEvents == 2

\* Number of move events a MovementTracker handles in one behaviour.
MaxTrackerMoves == 3

\* Number of animation frames a CustomCursor requests in one behaviour.
MaxFrames == 5
\* Number of move events dispatched to a CustomCursor in one behaviour.
MaxCursorMoves == 3

\* Number of callback invocations of a listener adapter in one behaviour.
MaxAdapterCalls == 2

\* Clock values the ClickCounter is observed at: a dense prefix, and the
\* sparse instants of the worked example (window 1000).
TimePoints == (0..MaxTime) \cup {100, 200, 250, 1050}

\* Values of options.timeWindow passed to the constructor.
WindowValues == {-1, 0, 1, 2, 3, 1000}

\* Pointer coordinates (clientX, clientY) carried by the mouse events.
CoordsX == {5, 15}
CoordsY == {5, 7}
Pos == [x : CoordsX, y : CoordsY]

\* Clock values (Date.now()) and pointer coordinates seen by a
\* MovementTracker.
MtTimes == {0, 100}
MtCoords == {0, 10}
MtPos == [x : MtCoords, y : MtCoords]

\* Values of event.button, and the names isPressed() is asked about.
ButtonIndices == 0..4
ButtonNames == {"left", "middle", "right"}
AskedNames == ButtonNames \cup {"back", "toString"}

\* Pointer positions seen by a CustomCursor, and the values of
\* options.offset it is constructed with.
CursorPos == {[x |-> 0, y |-> 0], [x |-> 10, y |-> 20]}
CursorOffsets == {[x |-> 0, y |-> 0], [x |-> -10, y |-> -10]}

\* deltaX / deltaY and deltaZ values of the wheel events.
WheelDeltas == {-1, 0, 1}
WheelDepths == {0, 1}

\* The callbacks a DragAndDrop can be given.
CallbackNames == {"onStart", "onDrag", "onEnd"}

\* options.timeWindow: absent (undefined) or a number.
WindowOptions ==
    {[given |-> FALSE, value |-> 0]}
        \cup {[given |-> TRUE, value |-> v] : v \in WindowValues}

VARIABLES
    \* ---- ClickCounter ----
    optTimeWindow,  \* options.timeWindow as passed to the constructor
    timeWindow,     \* this.timeWindow
    hasCallback,    \* whether options.callback was supplied (this.callback)
    clicks,         \* this.clicks, the click timestamp log
    ccListening,    \* handleClick registered for 'click' on this.element
    now,            \* the clock read by Date.now()
    ccOp,           \* the operation that ran last
    ccPrevOp,       \* the operation that ran before it
    ccRet,          \* value returned by the last getCount()
    ccRecorded,     \* history: timestamps of the clicks handled since reset()
    ccWasReset,     \* history: reset() has been called
    ccCalls,        \* history: callback invocations, <<count, event>>
    ccDispatched,   \* history: number of click events dispatched so far
    ccHandled,      \* history: the click events delivered while listening
    \* ---- DragAndDrop ----
    ddCallbacks,    \* names of the callbacks present in this.callbacks
    isDragging,     \* this.isDragging
    startPos,       \* this.startPos
    currentPos,     \* this.currentPos
    ddElem,         \* handleMouseDown registered for 'mousedown' on element
    ddDoc,          \* event types of document with a handler registered
    ddOp,           \* the operation that ran last
    ddPhase,        \* history: "idle", "pressed", "released" or "aborted"
    ddPress,        \* history: position of the last handled press
    ddMoves,        \* history: moves dispatched since, up to the release
    ddUp,           \* history: the release event that ended the gesture
    ddLog,          \* history: callback invocations since the last press
    ddIdleEvents,   \* history: moves/releases dispatched outside a gesture
    ddPresses,      \* history: number of presses dispatched so far
    \* ---- MovementTracker ----
    mtHasCallback,  \* whether a callback was supplied (this.callback)
    mtListening,    \* handleMove registered for 'mousemove' on this.element
    lastPos,        \* this.lastPos
    lastTime,       \* this.lastTime
    velocity,       \* this.velocity (the value of the object it refers to)
    mtNow,          \* the wall clock read by Date.now()
    mtOp,           \* the operation that ran last
    mtRet,          \* the object returned by the last getVelocity()
    mtCalls,        \* history: the data objects passed to the callback
    mtSeen,         \* history: the move events handled by handleMove
    \* ---- MouseButtons ----
    buttons,        \* this.buttons
    mbListening,    \* the handlers are registered on document
    mbOp,           \* the operation that ran last
    mbAsked,        \* the argument of the last isPressed()
    mbRet,          \* the value returned by the last isPressed()
    mbLast,         \* history: per button index, the last handled event
    \* ---- CustomCursor ----
    smooth,         \* this.options.smooth
    offset,         \* this.options.offset
    cuCurrentPos,   \* this.currentPos
    cuTargetPos,    \* this.targetPos
    animationFrame, \* this.animationFrame (0 for null)
    cuListening,    \* handleMove registered for 'mousemove' on document
    cuPending,      \* host: ids of the requested frames not yet run
    cuRequested,    \* host: number of frames requested so far (last id)
    cuShown,        \* the position last written to cursor.style.transform
    cuOp,           \* the operation that ran last
    cuPaints,       \* history: number of updateCursor() calls
    cuMoves,        \* history: positions of the move events handled
    \* ---- MousePosition ----
    mpHasCallback,  \* whether a callback was supplied (this.callback)
    mpListening,    \* handleMove registered for 'mousemove' on this.element
    mpPosition,     \* this.position
    mpOp,           \* the operation that ran last
    mpCalls,        \* history: the positions passed to the callback
    \* ---- ClickDetector ----
    cdCallbacks,    \* names of the callbacks present in this.callbacks
    cdListening,    \* the three handlers are registered on this.element
    cdOp,           \* the operation that ran last
    cdCalls,        \* history: the callbacks invoked, by name
    \* ---- HoverTracker ----
    htCallbacks,    \* names of the callbacks present in this.callbacks
    htListening,    \* the two handlers are registered on this.element
    isHovering,     \* this.isHovering
    htOp,           \* the operation that ran last
    htCalls,        \* history: the callbacks invoked, by name
    \* ---- MouseEnterLeave ----
    elCallbacks,    \* names of the callbacks present in this.callbacks
    elListening,    \* the two handlers are registered on this.element
    isInside,       \* this.isInside
    elOp,           \* the operation that ran last
    elCalls,        \* history: the callbacks invoked, by name
    \* ---- ScrollWheel ----
    swHasCallback,  \* whether a callback was supplied (this.callback)
    swListening,    \* handleWheel registered for 'wheel' on this.element
    swOp,           \* the operation that ran last
    swCalls,        \* history: the arguments of each callback invocation
    \* ---- every component ----
    stops,          \* history: stop() calls in a row since construction or
                    \* the last start(), counted up to 2
    strayDetach     \* history: removeEventListener was called for a handler
                    \* its target did not hold

ccVars == <<optTimeWindow, timeWindow, hasCallback, clicks, ccListening, now,
            ccOp, ccPrevOp, ccRet, ccRecorded, ccWasReset, ccCalls,
            ccDispatched, ccHandled>>

ddVars == <<ddCallbacks, isDragging, startPos, currentPos, ddElem, ddDoc,
            ddOp, ddPhase, ddPress, ddMoves, ddUp, ddLog, ddIdleEvents,
            ddPresses>>

mtVars == <<mtHasCallback, mtListening, lastPos, lastTime, velocity, mtNow,
            mtOp, mtRet, mtCalls, mtSeen>>

mbVars == <<buttons, mbListening, mbOp, mbAsked, mbRet, mbLast>>

cuVars == <<smooth, offset, cuCurrentPos, cuTargetPos, animationFrame,
            cuListening, cuPending, cuRequested, cuShown, cuOp, cuPaints,
            cuMoves>>

mpVars == <<mpHasCallback, mpListening, mpPosition, mpOp, mpCalls>>

cdVars == <<cdCallbacks, cdListening, cdOp, cdCalls>>

htVars == <<htCallbacks, htListening, isHovering, htOp, htCalls>>

elVars == <<elCallbacks, elListening, isInside, elOp, elCalls>>

swVars == <<swHasCallback, swListening, swOp, swCalls>>

vars == <<ccVars, ddVars, mtVars, mbVars, cuVars, mpVars, cdVars, htVars,
          elVars, swVars, stops, strayDetach>>

\* stop() was called once more.
StopsAfterStop(n) == IF n < 2 THEN n + 1 ELSE 2

\* For each component, the variables of the other components.
ccOthers == <<ddVars, mtVars, mbVars, cuVars, mpVars, cdVars, htVars,
              elVars, swVars>>
ddOthers == <<ccVars, mtVars, mbVars, cuVars, mpVars, cdVars, htVars,
              elVars, swVars>>
mtOthers == <<ccVars, ddVars, mbVars, cuVars, mpVars, cdVars, htVars,
              elVars, swVars>>
mbOthers == <<ccVars, ddVars, mtVars, cuVars, mpVars, cdVars, htVars,
              elVars, swVars>>
cuOthers == <<ccVars, ddVars, mtVars, mbVars, mpVars, cdVars, htVars,
              elVars, swVars>>
mpOthers == <<ccVars, ddVars, mtVars, mbVars, cuVars, cdVars, htVars,
              elVars, swVars>>
cdOthers == <<ccVars, ddVars, mtVars, mbVars, cuVars, mpVars, htVars,
              elVars, swVars>>
htOthers == <<ccVars, ddVars, mtVars, mbVars, cuVars, mpVars, cdVars,
              elVars, swVars>>
elOthers == <<ccVars, ddVars, mtVars, mbVars, cuVars, mpVars, cdVars,
              htVars, swVars>>
swOthers == <<ccVars, ddVars, mtVars, mbVars, cuVars, mpVars, cdVars,
              htVars, elVars>>

(***************************************************************************)
(* ClickCounter                                                            *)
(***************************************************************************)

\* The default of `options.timeWindow || 2000`.
DefaultWindow == 2000

\* `options.timeWindow || 2000`: undefined and 0 are falsy, every other
\* number (negative ones included) is kept.
EffectiveWindow(opt) ==
    IF opt.given /\ opt.value # 0 THEN opt.value ELSE DefaultWindow

\* The filter predicate `time => now - time < this.timeWindow`.
FreshLE(time, n, w) == n - time <= w
FreshReversed(time, n, w) == time - n < w
Fresh(time, n, w) == n - time < w

\* Array.prototype.filter with that predicate: keeps the entries that
\* satisfy it, in their original order.
RECURSIVE Filter(_, _, _)
Filter(cl, n, w) ==
    IF cl = <<>> THEN <<>>
    ELSE IF Fresh(Head(cl), n, w)
         THEN <<Head(cl)>> \o Filter(Tail(cl), n, w)
         ELSE Filter(Tail(cl), n, w)

\* handleClick's update of this.clicks: filter, then push(now).
HandleClickLog(cl, n, w) == Append(Filter(cl, n, w), n)

\* handleClick's `if (this.callback) this.callback(this.clicks.length, event)`.
NotifyFirstOnly(calls, has, count, ev) ==
    IF has /\ count = 1 THEN Append(calls, [count |-> count, event |-> ev])
    ELSE calls
Notify(calls, has, count, ev) ==
    IF has THEN Append(calls, [count |-> count, event |-> ev]) ELSE calls

\* getCount's update of this.clicks.
GetCountDropOldest(cl, n, w) ==
    IF Filter(cl, n, w) = <<>> THEN <<>> ELSE Tail(Filter(cl, n, w))
GetCountLog(cl, n, w) == Filter(cl, n, w)

\* reset's update of this.clicks.
ResetKeepLast(cl) == IF cl = <<>> THEN <<>> ELSE <<cl[Len(cl)]>>
ResetLog(cl) == <<>>

\* The page has constructed a ClickCounter.
ccLive == ccOp # "absent"

\* The constructor: fields set, then this.start().
ccInit ==
    /\ optTimeWindow \in WindowOptions
    /\ timeWindow = EffectiveWindow(optTimeWindow)
    /\ hasCallback \in BOOLEAN
    /\ clicks = <<>>
    /\ ccListening = TRUE
    /\ now = 0
    /\ ccOp = "new"
    /\ ccPrevOp = "none"
    /\ ccRet = -1
    /\ ccRecorded = <<>>
    /\ ccWasReset = FALSE
    /\ ccCalls = <<>>
    /\ ccDispatched = 0
    /\ ccHandled = <<>>

\* The clock advances.
ccTick ==
    /\ ccLive
    /\ \E t \in TimePoints : t > now /\ now' = t
    /\ ccOp' = "tick"
    /\ ccPrevOp' = ccOp
    /\ UNCHANGED <<optTimeWindow, timeWindow, hasCallback, clicks,
                   ccListening, ccRet, ccRecorded, ccWasReset, ccCalls,
                   ccDispatched, ccHandled>>
    /\ UNCHANGED stops
    /\ UNCHANGED strayDetach
    /\ UNCHANGED ccOthers

\* A click event on the element while handleClick is registered:
\* handleClick(event) runs.
ccClick ==
    /\ ccLive
    /\ ccDispatched < MaxClicks
    /\ ccListening
    /\ clicks' = HandleClickLog(clicks, now, timeWindow)
    /\ ccCalls' = Notify(ccCalls, hasCallback, Len(clicks'), ccDispatched + 1)
    /\ ccRecorded' = Append(ccRecorded, now)
    /\ ccDispatched' = ccDispatched + 1
    /\ ccHandled' = Append(ccHandled, ccDispatched + 1)
    /\ ccOp' = "click"
    /\ ccPrevOp' = ccOp
    /\ UNCHANGED <<optTimeWindow, timeWindow, hasCallback, ccListening, now,
                   ccRet, ccWasReset>>
    /\ UNCHANGED stops
    /\ UNCHANGED strayDetach
    /\ UNCHANGED ccOthers

\* A click event on the element after stop(): no handler is registered.
ccClickUnheard ==
    /\ ccLive
    /\ ccDispatched < MaxClicks
    /\ ~ccListening
    /\ ccDispatched' = ccDispatched + 1
    /\ ccOp' = "unheard"
    /\ ccPrevOp' = ccOp
    /\ UNCHANGED <<optTimeWindow, timeWindow, hasCallback, clicks,
                   ccListening, now, ccRet, ccRecorded, ccWasReset, ccCalls,
                   ccHandled>>
    /\ UNCHANGED stops
    /\ UNCHANGED strayDetach
    /\ UNCHANGED ccOthers

\* start(): addEventListener('click', this.handleClick).
ccStart ==
    /\ ccLive
    /\ ccListening' = TRUE
    /\ ccOp' = "start"
    /\ ccPrevOp' = ccOp
    /\ UNCHANGED <<optTimeWindow, timeWindow, hasCallback, clicks, now, ccRet,
                   ccRecorded, ccWasReset, ccCalls, ccDispatched, ccHandled>>
    /\ stops' = 0
    /\ UNCHANGED strayDetach
    /\ UNCHANGED ccOthers

\* stop(): removeEventListener('click', this.handleClick).
ccStop ==
    /\ ccLive
    /\ ccListening' = FALSE
    /\ ccOp' = "stop"
    /\ ccPrevOp' = ccOp
    /\ UNCHANGED <<optTimeWindow, timeWindow, hasCallback, clicks, now, ccRet,
                   ccRecorded, ccWasReset, ccCalls, ccDispatched, ccHandled>>
    /\ stops' = StopsAfterStop(stops)
    /\ strayDetach' = (strayDetach \/ ~ccListening)
    /\ UNCHANGED ccOthers

\* getCount(): filter, return the length.
ccGetCount ==
    /\ ccLive
    /\ clicks' = GetCountLog(clicks, now, timeWindow)
    /\ ccRet' = Len(clicks')
    /\ ccOp' = "getCount"
    /\ ccPrevOp' = ccOp
    /\ UNCHANGED <<optTimeWindow, timeWindow, hasCallback, ccListening, now,
                   ccRecorded, ccWasReset, ccCalls, ccDispatched, ccHandled>>
    /\ UNCHANGED stops
    /\ UNCHANGED strayDetach
    /\ UNCHANGED ccOthers

\* reset().
ccReset ==
    /\ ccLive
    /\ clicks' = ResetLog(clicks)
    /\ ccRecorded' = <<>>
    /\ ccWasReset' = TRUE
    /\ ccOp' = "reset"
    /\ ccPrevOp' = ccOp
    /\ UNCHANGED <<optTimeWindow, timeWindow, hasCallback, ccListening, now,
                   ccRet, ccCalls, ccDispatched, ccHandled>>
    /\ UNCHANGED stops
    /\ UNCHANGED strayDetach
    /\ UNCHANGED ccOthers

(***************************************************************************)
(* DragAndDrop                                                             *)
(***************************************************************************)

\* A mouse event with its clientX / clientY.
Event(type, p) == [type |-> type, x |-> p.x, y |-> p.y]

\* `{ x: event.clientX, y: event.clientY }`.
EventPos(ev) == [x |-> ev.x, y |-> ev.y]

\* `{ x: this.currentPos.x - this.startPos.x, y: ... }`.
DeltaSwapped(cur, st) == [x |-> st.x - cur.x, y |-> st.y - cur.y]
Delta(cur, st) == [x |-> cur.x - st.x, y |-> cur.y - st.y]

\* `if (this.callbacks.<name>) this.callbacks.<name>(...)`.
Invoke(log, name, args) ==
    IF name \in ddCallbacks THEN Append(log, args) ELSE log

\* target.addEventListener(type, handler) for an already bound handler: a
\* second registration of the same handler is discarded by the host.
AddEventListener(reg, type) == reg \cup {type}

\* A removeEventListener that registers the handler when it finds none.
RemoveEventListenerToggles(reg, type) ==
    IF type \in reg THEN reg \ {type} ELSE reg \cup {type}

\* target.removeEventListener(type, handler).
RemoveEventListener(reg, type) == reg \ {type}

\* A release that reports where the button was let go.
EndPosOfRelease(ev, cur) == EventPos(ev)

\* The position handleMouseUp reports and measures the delta from:
\* this.currentPos; the release event's clientX / clientY are not read.
EndPos(ev, cur) == cur

\* removeEventListener is called for a handler the target does not hold.
Unregistered(reg, type) == type \notin reg

\* One of the two document removeEventListener calls of handleMouseUp and
\* stop() finds no handler.
AfterUpUnregistered(reg) ==
    Unregistered(reg, "mousemove") \/ Unregistered(reg, "mouseup")

\* The document listeners after handleMouseDown.
AfterDown(reg) ==
    AddEventListener(AddEventListener(reg, "mousemove"), "mouseup")

\* A release that leaves the document listeners in place.
AfterUpKeeps(reg) == reg

\* The document listeners after handleMouseUp and after stop().
AfterUp(reg) ==
    RemoveEventListener(RemoveEventListener(reg, "mousemove"), "mouseup")

\* `if (!this.isDragging) return;` of handleMouseMove and handleMouseUp.
ReturnsNever(dragging) == FALSE
ReturnsEarly(dragging) == ~dragging

Origin == [x |-> 0, y |-> 0]

\* The page has constructed a DragAndDrop.
ddLive == ddOp # "absent"

\* The constructor: fields set, handlers bound, then this.start().
ddInit ==
    /\ ddCallbacks \in SUBSET CallbackNames
    /\ isDragging = FALSE
    /\ startPos = Origin
    /\ currentPos = Origin
    /\ ddElem = TRUE
    /\ ddDoc = {}
    /\ ddOp = "new"
    /\ ddPhase = "idle"
    /\ ddPress = Origin
    /\ ddMoves = <<>>
    /\ ddUp = Event("none", Origin)
    /\ ddLog = <<>>
    /\ ddIdleEvents = 0
    /\ ddPresses = 0

\* A mousedown on the element while handleMouseDown is registered.
ddMouseDown ==
    /\ ddLive
    /\ ddPresses < MaxPresses
    /\ ddElem
    /\ \E p \in Pos :
         LET ev == Event("mousedown", p)
         IN  /\ isDragging' = TRUE
             /\ startPos' = EventPos(ev)
             /\ currentPos' = startPos'
             /\ ddLog' = Invoke(<<>>, "onStart",
                                [cb |-> "onStart", event |-> ev,
                                 pos |-> startPos'])
             /\ ddDoc' = AfterDown(ddDoc)
             /\ ddPress' = p
    /\ ddPhase' = "pressed"
    /\ ddMoves' = <<>>
    /\ ddIdleEvents' = 0
    /\ ddPresses' = ddPresses + 1
    /\ ddOp' = "mousedown"
    /\ UNCHANGED <<ddCallbacks, ddElem, ddUp>>
    /\ UNCHANGED stops
    /\ UNCHANGED strayDetach
    /\ UNCHANGED ddOthers

\* A mousedown on the element after stop(): no handler is registered.
ddMouseDownUnheard ==
    /\ ddLive
    /\ ddPresses < MaxPresses
    /\ ~ddElem
    /\ ddPresses' = ddPresses + 1
    /\ ddOp' = "unheard"
    /\ UNCHANGED <<ddCallbacks, isDragging, startPos, currentPos, ddElem,
                   ddDoc, ddPhase, ddPress, ddMoves, ddUp, ddLog,
                   ddIdleEvents>>
    /\ UNCHANGED stops
    /\ UNCHANGED strayDetach
    /\ UNCHANGED ddOthers

\* History of a move or release event: it belongs to the gesture in
\* progress, or it is counted as an event outside any gesture.
InGesture == ddPhase = "pressed"

\* A mousemove reaching document while handleMouseMove is registered.
ddMouseMove ==
    /\ ddLive
    /\ "mousemove" \in ddDoc
    /\ IF InGesture THEN Len(ddMoves) < MaxMoves
                    ELSE ddIdleEvents < MaxIdleEvents
    /\ \E p \in Pos :
         LET ev == Event("mousemove", p)
         IN  /\ IF ReturnsEarly(isDragging)
                THEN UNCHANGED <<currentPos, ddLog>>
                ELSE /\ currentPos' = EventPos(ev)
                     /\ ddLog' = Invoke(ddLog, "onDrag",
                                   [cb |-> "onDrag", event |-> ev,
                                    pos |-> currentPos',
                                    delta |-> Delta(currentPos', startPos)])
             /\ IF InGesture
                THEN ddMoves' = Append(ddMoves, p) /\ UNCHANGED ddIdleEvents
                ELSE ddIdleEvents' = ddIdleEvents + 1 /\ UNCHANGED ddMoves
    /\ ddOp' = "mousemove"
    /\ UNCHANGED <<ddCallbacks, isDragging, startPos, ddElem, ddDoc, ddPhase,
                   ddPress, ddUp, ddPresses>>
    /\ UNCHANGED stops
    /\ UNCHANGED strayDetach
    /\ UNCHANGED ddOthers

\* A mousemove while no handler is registered on document.
ddMouseMoveUnheard ==
    /\ ddLive
    /\ "mousemove" \notin ddDoc
    /\ ddIdleEvents < MaxIdleEvents
    /\ ddIdleEvents' = ddIdleEvents + 1
    /\ ddOp' = "mousemoveUnheard"
    /\ UNCHANGED <<ddCallbacks, isDragging, startPos, currentPos, ddElem,
                   ddDoc, ddPhase, ddPress, ddMoves, ddUp, ddLog,
                   ddPresses>>
    /\ UNCHANGED stops
    /\ UNCHANGED strayDetach
    /\ UNCHANGED ddOthers

\* A mouseup reaching document while handleMouseUp is registered.
ddMouseUp ==
    /\ ddLive
    /\ "mouseup" \in ddDoc
    /\ InGesture \/ ddIdleEvents < MaxIdleEvents
    /\ \E q \in Pos :
         LET ev == Event("mouseup", q)
         IN  /\ IF ReturnsEarly(isDragging)
                THEN UNCHANGED <<isDragging, ddLog, ddDoc>>
                ELSE /\ isDragging' = FALSE
                     /\ ddLog' = Invoke(ddLog, "onEnd",
                                   [cb |-> "onEnd", event |-> ev,
                                    pos |-> EndPos(ev, currentPos),
                                    delta |-> Delta(EndPos(ev, currentPos),
                                                    startPos)])
                     /\ ddDoc' = AfterUp(ddDoc)
             /\ IF InGesture
                THEN /\ ddPhase' = "released"
                     /\ ddUp' = ev
                     /\ UNCHANGED ddIdleEvents
                ELSE /\ ddIdleEvents' = ddIdleEvents + 1
                     /\ UNCHANGED <<ddPhase, ddUp>>
    /\ ddOp' = "mouseup"
    /\ UNCHANGED <<ddCallbacks, startPos, currentPos, ddElem, ddPress,
                   ddMoves, ddPresses>>
    /\ UNCHANGED stops
    /\ strayDetach' =
         (strayDetach \/ (~ReturnsEarly(isDragging)
                            /\ AfterUpUnregistered(ddDoc)))
    /\ UNCHANGED ddOthers

\* A mouseup while no handler is registered on document.
ddMouseUpUnheard ==
    /\ ddLive
    /\ "mouseup" \notin ddDoc
    /\ ddIdleEvents < MaxIdleEvents
    /\ ddIdleEvents' = ddIdleEvents + 1
    /\ ddOp' = "mouseupUnheard"
    /\ UNCHANGED <<ddCallbacks, isDragging, startPos, currentPos, ddElem,
                   ddDoc, ddPhase, ddPress, ddMoves, ddUp, ddLog,
                   ddPresses>>
    /\ UNCHANGED stops
    /\ UNCHANGED strayDetach
    /\ UNCHANGED ddOthers

\* handleMouseMove(event) run while it is not registered on document: the
\* bound handler is a public property and is called directly.
ddHandleMouseMove ==
    /\ ddLive
    /\ "mousemove" \notin ddDoc
    /\ ddIdleEvents < MaxIdleEvents
    /\ \E p \in Pos :
         LET ev == Event("mousemove", p)
         IN  IF ReturnsEarly(isDragging)
             THEN UNCHANGED <<currentPos, ddLog>>
             ELSE /\ currentPos' = EventPos(ev)
                  /\ ddLog' = Invoke(ddLog, "onDrag",
                                [cb |-> "onDrag", event |-> ev,
                                 pos |-> currentPos',
                                 delta |-> Delta(currentPos', startPos)])
    /\ ddIdleEvents' = ddIdleEvents + 1
    /\ ddOp' = "handleMouseMove"
    /\ UNCHANGED <<ddCallbacks, isDragging, startPos, ddElem, ddDoc, ddPhase,
                   ddPress, ddMoves, ddUp, ddPresses>>
    /\ UNCHANGED stops
    /\ UNCHANGED strayDetach
    /\ UNCHANGED ddOthers

\* handleMouseUp(event) run while it is not registered on document.
ddHandleMouseUp ==
    /\ ddLive
    /\ "mouseup" \notin ddDoc
    /\ ddIdleEvents < MaxIdleEvents
    /\ \E q \in Pos :
         LET ev == Event("mouseup", q)
         IN  IF ReturnsEarly(isDragging)
             THEN UNCHANGED <<isDragging, ddLog, ddDoc>>
             ELSE /\ isDragging' = FALSE
                  /\ ddLog' = Invoke(ddLog, "onEnd",
                                [cb |-> "onEnd", event |-> ev,
                                 pos |-> EndPos(ev, currentPos),
                                 delta |-> Delta(EndPos(ev, currentPos),
                                                 startPos)])
                  /\ ddDoc' = AfterUp(ddDoc)
    /\ ddIdleEvents' = ddIdleEvents + 1
    /\ ddOp' = "handleMouseUp"
    /\ UNCHANGED <<ddCallbacks, startPos, currentPos, ddElem, ddPhase,
                   ddPress, ddMoves, ddUp, ddPresses>>
    /\ UNCHANGED stops
    /\ strayDetach' =
         (strayDetach \/ (~ReturnsEarly(isDragging)
                            /\ AfterUpUnregistered(ddDoc)))
    /\ UNCHANGED ddOthers

\* start(): addEventListener('mousedown', this.handleMouseDown).
ddStart ==
    /\ ddLive
    /\ ddElem' = TRUE
    /\ ddOp' = "start"
    /\ UNCHANGED <<ddCallbacks, isDragging, startPos, currentPos, ddDoc,
                   ddPhase, ddPress, ddMoves, ddUp, ddLog,
                   ddIdleEvents, ddPresses>>
    /\ stops' = 0
    /\ UNCHANGED strayDetach
    /\ UNCHANGED ddOthers

\* stop(): the three removeEventListener calls, and nothing else.
ddStop ==
    /\ ddLive
    /\ ddElem' = FALSE
    /\ ddDoc' = AfterUp(ddDoc)
    /\ ddPhase' = IF InGesture THEN "aborted" ELSE ddPhase
    /\ ddOp' = "stop"
    /\ UNCHANGED <<ddCallbacks, isDragging, startPos, currentPos, ddPress,
                   ddMoves, ddUp, ddLog, ddIdleEvents, ddPresses>>
    /\ stops' = StopsAfterStop(stops)
    /\ strayDetach' =
         (strayDetach \/ ~ddElem \/ AfterUpUnregistered(ddDoc))
    /\ UNCHANGED ddOthers

(***************************************************************************)
(* Numbers.  JavaScript numbers are modelled by exact fractions n/d in     *)
(* lowest terms with d >= 0; d = 0 stands for Infinity, -Infinity and NaN  *)
(* (a division by zero).  Rounding of the floating-point results is not    *)
(* modelled.                                                               *)
(***************************************************************************)
Abs(k) == IF k < 0 THEN -k ELSE k

Sign(k) == IF k < 0 THEN -1 ELSE IF k > 0 THEN 1 ELSE 0

RECURSIVE GCD(_, _)
GCD(a, b) == IF b = 0 THEN a ELSE GCD(b, a % b)

\* The number n / d.
Quotient(n, d) ==
    IF d = 0 THEN [n |-> Sign(n), d |-> 0]
    ELSE LET g == GCD(Abs(n), Abs(d))
         IN  [n |-> (Sign(d) * n) \div g, d |-> Abs(d) \div g]

Times(a, b) == Quotient(a.n * b.n, a.d * b.d)

Plus(a, b) == Quotient(a.n * b.d + b.n * a.d, a.d * b.d)

Zero == Quotient(0, 1)

IsSquare(k) == \E r \in 0..k : r * r = k

Root(k) == CHOOSE r \in 0..k : r * r = k

\* Math.sqrt of a non-negative number: the exact root when there is a
\* rational one, otherwise the surd is kept as its radicand.
Sqrt(q) ==
    IF IsSquare(q.n) /\ IsSquare(q.d)
    THEN [exact |-> TRUE, val |-> Quotient(Root(q.n), Root(q.d))]
    ELSE [exact |-> FALSE, val |-> q]

\* Math.atan2(dy, dx) * (180 / Math.PI), for the directions that are
\* multiples of 45 degrees (all that MtCoords produces).
Atan2Deg(dy, dx) ==
    CASE dy = 0 /\ dx >= 0 -> 0
      [] dy > 0 /\ dx = dy -> 45
      [] dy > 0 /\ dx = 0 -> 90
      [] dy > 0 /\ dx = -dy -> 135
      [] dy = 0 /\ dx < 0 -> 180
      [] dy < 0 /\ dx = dy -> -135
      [] dy < 0 /\ dx = 0 -> -90
      [] dy < 0 /\ dx = -dy -> -45

(***************************************************************************)
(* MovementTracker                                                         *)
(***************************************************************************)

\* `if (deltaTime > 0)`.
EmitsNonNegative(deltaTime) == deltaTime >= 0
EmitsNonZero(deltaTime) == deltaTime # 0
Emits(deltaTime) == deltaTime > 0

\* `{ x: deltaX / deltaTime, y: deltaY / deltaTime }`.
Velocity(deltaX, deltaY, deltaTime) ==
    [x |-> Quotient(deltaX, deltaTime), y |-> Quotient(deltaY, deltaTime)]

\* `Math.sqrt(this.velocity.x ** 2 + this.velocity.y ** 2)`.
Speed(v) == Sqrt(Plus(Times(v.x, v.x), Times(v.y, v.y)))

\* `Math.atan2(deltaY, deltaX) * (180 / Math.PI)`.
AngleSwapped(deltaX, deltaY) == Atan2Deg(deltaX, deltaY)
Angle(deltaX, deltaY) == Atan2Deg(deltaY, deltaX)

\* The object passed to the callback.
MoveData(p, deltaX, deltaY, deltaTime) ==
    [velocity |-> Velocity(deltaX, deltaY, deltaTime),
     speed |-> Speed(Velocity(deltaX, deltaY, deltaTime)),
     angle |-> Angle(deltaX, deltaY),
     position |-> p]

\* getVelocity(): `{ ...this.velocity }`, a new object with the same value.
GetVelocityAlias(v) == [live |-> TRUE, shared |-> TRUE, value |-> v]
GetVelocity(v) == [live |-> TRUE, shared |-> FALSE, value |-> v]

ZeroVector == [x |-> Zero, y |-> Zero]

\* What a caller writes into the object getVelocity() gave it.
Scribble == [x |-> Quotient(7, 1), y |-> Quotient(7, 1)]

\* The page has constructed a MovementTracker.
mtLive == mtOp # "absent"

\* The constructor, at any clock value: fields set, then this.start().
mtInit ==
    /\ mtHasCallback \in BOOLEAN
    /\ mtListening = TRUE
    /\ lastPos = Origin
    /\ mtNow \in MtTimes
    /\ lastTime = mtNow
    /\ velocity = ZeroVector
    /\ mtOp = "new"
    /\ mtRet = [live |-> FALSE, shared |-> FALSE, value |-> ZeroVector]
    /\ mtCalls = <<>>
    /\ mtSeen = <<>>

\* The wall clock changes: it advances, or it is set back.
mtClock ==
    /\ mtLive
    /\ \E t \in MtTimes : t # mtNow /\ mtNow' = t
    /\ mtOp' = "clock"
    /\ UNCHANGED <<mtHasCallback, mtListening, lastPos, lastTime, velocity,
                   mtRet, mtCalls, mtSeen>>
    /\ UNCHANGED stops
    /\ UNCHANGED strayDetach
    /\ UNCHANGED mtOthers

\* A mousemove on the element while handleMove is registered.
mtMove ==
    /\ mtLive
    /\ mtListening
    /\ Len(mtSeen) < MaxTrackerMoves
    /\ \E p \in MtPos :
         LET currentTime == mtNow
             deltaTime == currentTime - lastTime
             deltaX == p.x - lastPos.x
             deltaY == p.y - lastPos.y
         IN  /\ IF Emits(deltaTime)
                THEN /\ velocity' = Velocity(deltaX, deltaY, deltaTime)
                     /\ mtRet' = [mtRet EXCEPT !.shared = FALSE]
                     /\ mtCalls' =
                          IF mtHasCallback
                          THEN Append(mtCalls,
                                      MoveData(p, deltaX, deltaY, deltaTime))
                          ELSE mtCalls
                ELSE UNCHANGED <<velocity, mtRet, mtCalls>>
             /\ lastPos' = p
             /\ lastTime' = currentTime
             /\ mtSeen' = Append(mtSeen, [pos |-> p, from |-> lastPos,
                                          deltaTime |-> deltaTime])
    /\ mtOp' = "move"
    /\ UNCHANGED <<mtHasCallback, mtListening, mtNow>>
    /\ UNCHANGED stops
    /\ UNCHANGED strayDetach
    /\ UNCHANGED mtOthers

\* A mousemove on the element after stop(): no handler is registered.
mtMoveUnheard ==
    /\ mtLive
    /\ ~mtListening
    /\ mtOp' = "unheard"
    /\ UNCHANGED <<mtHasCallback, mtListening, lastPos, lastTime, velocity,
                   mtNow, mtRet, mtCalls, mtSeen>>
    /\ UNCHANGED stops
    /\ UNCHANGED strayDetach
    /\ UNCHANGED mtOthers

\* start(): addEventListener('mousemove', this.handleMove).
mtStart ==
    /\ mtLive
    /\ mtListening' = TRUE
    /\ mtOp' = "start"
    /\ UNCHANGED <<mtHasCallback, lastPos, lastTime, velocity, mtNow, mtRet,
                   mtCalls, mtSeen>>
    /\ stops' = 0
    /\ UNCHANGED strayDetach
    /\ UNCHANGED mtOthers

\* stop(): removeEventListener('mousemove', this.handleMove).
mtStop ==
    /\ mtLive
    /\ mtListening' = FALSE
    /\ mtOp' = "stop"
    /\ UNCHANGED <<mtHasCallback, lastPos, lastTime, velocity, mtNow, mtRet,
                   mtCalls, mtSeen>>
    /\ stops' = StopsAfterStop(stops)
    /\ strayDetach' = (strayDetach \/ ~mtListening)
    /\ UNCHANGED mtOthers

\* getVelocity().
mtGetVelocity ==
    /\ mtLive
    /\ mtRet' = GetVelocity(velocity)
    /\ mtOp' = "getVelocity"
    /\ UNCHANGED <<mtHasCallback, mtListening, lastPos, lastTime, velocity,
                   mtNow, mtCalls, mtSeen>>
    /\ UNCHANGED stops
    /\ UNCHANGED strayDetach
    /\ UNCHANGED mtOthers

\* The caller assigns to the fields of the object getVelocity() returned.
mtScribble ==
    /\ mtLive
    /\ mtRet.live
    /\ mtRet.value # Scribble
    /\ mtRet' = [mtRet EXCEPT !.value = Scribble]
    /\ velocity' = IF mtRet.shared THEN Scribble ELSE velocity
    /\ mtOp' = "scribble"
    /\ UNCHANGED <<mtHasCallback, mtListening, lastPos, lastTime, mtNow,
                   mtCalls, mtSeen>>
    /\ UNCHANGED stops
    /\ UNCHANGED strayDetach
    /\ UNCHANGED mtOthers

(***************************************************************************)
(* MouseButtons                                                            *)
(***************************************************************************)

\* The property names every plain object inherits (Object.prototype), of
\* which AskedNames has one.
InheritedNames == {"toString", "constructor", "valueOf", "hasOwnProperty"}

\* A JavaScript value, as far as isPressed() tells values apart.
Boolean(b) == [type |-> "boolean", truthy |-> b]
Function == [type |-> "function", truthy |-> TRUE]
Undefined == [type |-> "undefined", truthy |-> FALSE]

\* `this.buttons[button]`: an own property, else an inherited one, else
\* undefined.
Lookup(obj, name) ==
    IF name \in DOMAIN obj THEN Boolean(obj[name])
    ELSE IF name \in InheritedNames THEN Function
    ELSE Undefined

\* `this.buttons[button] || false`.
IsPressed(obj, name) ==
    IF Lookup(obj, name).truthy THEN Lookup(obj, name) ELSE Boolean(FALSE)

\* The `switch (event.button)` of handleMouseDown (value TRUE) and of
\* handleMouseUp (value FALSE).
Switch(obj, button, value) ==
    CASE button = 0 -> [obj EXCEPT !.left = value]
      [] button = 1 -> [obj EXCEPT !.middle = value]
      [] button = 2 -> [obj EXCEPT !.right = value]
      [] OTHER -> obj

NoButtons == [left |-> FALSE, right |-> FALSE, middle |-> FALSE]

\* The page has constructed a MouseButtons.
mbLive == mbOp # "absent"

\* The constructor: this.buttons set, handlers bound, then this.start().
mbInit ==
    /\ buttons = NoButtons
    /\ mbListening = TRUE
    /\ mbOp = "new"
    /\ mbAsked = "left"
    /\ mbRet = Boolean(FALSE)
    /\ mbLast = [i \in ButtonIndices |-> "none"]

\* A mousedown reaching document while the handlers are registered.
mbMouseDown ==
    /\ mbLive
    /\ mbListening
    /\ \E b \in ButtonIndices :
         /\ buttons' = Switch(buttons, b, TRUE)
         /\ mbLast' = [mbLast EXCEPT ![b] = "down"]
    /\ mbOp' = "mousedown"
    /\ UNCHANGED <<mbListening, mbAsked, mbRet>>
    /\ UNCHANGED stops
    /\ UNCHANGED strayDetach
    /\ UNCHANGED mbOthers

\* A mouseup reaching document while the handlers are registered.
mbMouseUp ==
    /\ mbLive
    /\ mbListening
    /\ \E b \in ButtonIndices :
         /\ buttons' = Switch(buttons, b, FALSE)
         /\ mbLast' = [mbLast EXCEPT ![b] = "up"]
    /\ mbOp' = "mouseup"
    /\ UNCHANGED <<mbListening, mbAsked, mbRet>>
    /\ UNCHANGED stops
    /\ UNCHANGED strayDetach
    /\ UNCHANGED mbOthers

\* A mousedown or mouseup after stop(): no handler is registered.
mbUnheard ==
    /\ mbLive
    /\ ~mbListening
    /\ mbOp' = "unheard"
    /\ UNCHANGED <<buttons, mbListening, mbAsked, mbRet, mbLast>>
    /\ UNCHANGED stops
    /\ UNCHANGED strayDetach
    /\ UNCHANGED mbOthers

\* start(): the two addEventListener calls.
mbStart ==
    /\ mbLive
    /\ mbListening' = TRUE
    /\ mbOp' = "start"
    /\ UNCHANGED <<buttons, mbAsked, mbRet, mbLast>>
    /\ stops' = 0
    /\ UNCHANGED strayDetach
    /\ UNCHANGED mbOthers

\* stop(): the two removeEventListener calls.
mbStop ==
    /\ mbLive
    /\ mbListening' = FALSE
    /\ mbOp' = "stop"
    /\ UNCHANGED <<buttons, mbAsked, mbRet, mbLast>>
    /\ stops' = StopsAfterStop(stops)
    /\ strayDetach' = (strayDetach \/ ~mbListening)
    /\ UNCHANGED mbOthers

\* isPressed(button).
mbIsPressed ==
    /\ mbLive
    /\ \E name \in AskedNames :
         /\ mbAsked' = name
         /\ mbRet' = IsPressed(buttons, name)
    /\ mbOp' = "isPressed"
    /\ UNCHANGED <<buttons, mbListening, mbLast>>
    /\ UNCHANGED stops
    /\ UNCHANGED strayDetach
    /\ UNCHANGED mbOthers

(***************************************************************************)
(* CustomCursor                                                            *)
(***************************************************************************)

Minus(a, b) == Plus(a, Quotient(-b.n, b.d))

\* A position with whole-number coordinates, as numbers.
Point(p) == [x |-> Quotient(p.x, 1), y |-> Quotient(p.y, 1)]

\* `event.clientX + this.options.offset.x`, and the same for y.
Target(p, off) == Point([x |-> p.x + off.x, y |-> p.y + off.y])

\* The constant 0.3 of update().
Easing == Quotient(3, 10)

\* `current += (target - current) * 0.3`, one coordinate.
ApproachReversed(current, target) ==
    Plus(current, Times(Minus(current, target), Easing))
Approach(current, target) ==
    Plus(current, Times(Minus(target, current), Easing))

\* `if (this.options.smooth)` of start().
RequestsAlways(sm) == TRUE
RequestsFrame(sm) == sm

\* requestAnimationFrame(this.update): the host hands out a new id and
\* keeps the request pending.
NewFrame == cuRequested + 1

\* `smooth: options.smooth !== false, ...options`: options.smooth absent,
\* true or false.
SmoothOptions == {"absent", "true", "false"}
SmoothOf(opt) == opt # "false"

\* The page has constructed a CustomCursor.
cuLive == cuOp # "absent"

\* The constructor followed by its this.start(): the listener is registered
\* and, when smooth, the first frame is requested.
cuInit ==
    /\ \E opt \in SmoothOptions : smooth = SmoothOf(opt)
    /\ offset \in CursorOffsets
    /\ cuCurrentPos = Point(Origin)
    /\ cuTargetPos = Point(Origin)
    /\ cuListening = TRUE
    /\ animationFrame = (IF RequestsFrame(smooth) THEN 1 ELSE 0)
    /\ cuPending = (IF RequestsFrame(smooth) THEN {1} ELSE {})
    /\ cuRequested = (IF RequestsFrame(smooth) THEN 1 ELSE 0)
    /\ cuShown = Point(Origin)
    /\ cuOp = "new"
    /\ cuPaints = 0
    /\ cuMoves = <<>>

\* A mousemove reaching document while handleMove is registered.
cuMove ==
    /\ cuLive
    /\ cuListening
    /\ Len(cuMoves) < MaxCursorMoves
    /\ \E p \in CursorPos :
         /\ cuTargetPos' = Target(p, offset)
         /\ cuMoves' = Append(cuMoves, p)
    /\ IF ~smooth
       THEN /\ cuCurrentPos' = cuTargetPos'
            /\ cuShown' = cuCurrentPos'
            /\ cuPaints' = cuPaints + 1
       ELSE UNCHANGED <<cuCurrentPos, cuShown, cuPaints>>
    /\ cuOp' = "move"
    /\ UNCHANGED <<smooth, offset, animationFrame, cuListening, cuPending,
                   cuRequested>>
    /\ UNCHANGED stops
    /\ UNCHANGED strayDetach
    /\ UNCHANGED cuOthers

\* A mousemove after stop(): no handler is registered.
cuMoveUnheard ==
    /\ cuLive
    /\ ~cuListening
    /\ cuOp' = "unheard"
    /\ UNCHANGED <<smooth, offset, cuCurrentPos, cuTargetPos, animationFrame,
                   cuListening, cuPending, cuRequested, cuShown, cuPaints,
                   cuMoves>>
    /\ UNCHANGED stops
    /\ UNCHANGED strayDetach
    /\ UNCHANGED cuOthers

\* The host runs a pending frame request: update().
cuTick ==
    /\ cuLive
    /\ cuRequested < MaxFrames
    /\ \E id \in cuPending :
         IF smooth
         THEN /\ cuCurrentPos' =
                   [x |-> Approach(cuCurrentPos.x, cuTargetPos.x),
                    y |-> Approach(cuCurrentPos.y, cuTargetPos.y)]
              /\ cuShown' = cuCurrentPos'
              /\ cuPaints' = cuPaints + 1
              /\ animationFrame' = NewFrame
              /\ cuPending' = (cuPending \ {id}) \cup {NewFrame}
              /\ cuRequested' = NewFrame
         ELSE /\ cuPending' = cuPending \ {id}
              /\ UNCHANGED <<cuCurrentPos, cuShown, cuPaints, animationFrame,
                             cuRequested>>
    /\ cuOp' = "tick"
    /\ UNCHANGED <<smooth, offset, cuTargetPos, cuListening, cuMoves>>
    /\ UNCHANGED stops
    /\ UNCHANGED strayDetach
    /\ UNCHANGED cuOthers

\* start().
cuStart ==
    /\ cuLive
    /\ cuRequested < MaxFrames
    /\ cuListening' = TRUE
    /\ IF RequestsFrame(smooth)
       THEN /\ animationFrame' = NewFrame
            /\ cuPending' = cuPending \cup {NewFrame}
            /\ cuRequested' = NewFrame
       ELSE UNCHANGED <<animationFrame, cuPending, cuRequested>>
    /\ cuOp' = "start"
    /\ UNCHANGED <<smooth, offset, cuCurrentPos, cuTargetPos, cuShown,
                   cuPaints, cuMoves>>
    /\ stops' = 0
    /\ UNCHANGED strayDetach
    /\ UNCHANGED cuOthers

\* stop(): removeEventListener, and cancelAnimationFrame of the one id
\* held in this.animationFrame.
cuStop ==
    /\ cuLive
    /\ cuListening' = FALSE
    /\ cuPending' = IF animationFrame # 0 THEN cuPending \ {animationFrame}
                                          ELSE cuPending
    /\ cuOp' = "stop"
    /\ UNCHANGED <<smooth, offset, cuCurrentPos, cuTargetPos, animationFrame,
                   cuRequested, cuShown, cuPaints, cuMoves>>
    /\ stops' = StopsAfterStop(stops)
    /\ strayDetach' = (strayDetach \/ ~cuListening)
    /\ UNCHANGED cuOthers

(***************************************************************************)
(* MousePosition                                                           *)
(***************************************************************************)

\* The page has constructed a MousePosition.
mpLive == mpOp # "absent"

\* The constructor: fields set, then this.start().
mpInit ==
    /\ mpHasCallback \in BOOLEAN
    /\ mpListening = TRUE
    /\ mpPosition = Origin
    /\ mpOp = "new"
    /\ mpCalls = <<>>

\* A mousemove on the element while handleMove is registered.
mpMove ==
    /\ mpLive
    /\ mpListening
    /\ Len(mpCalls) < MaxAdapterCalls
    /\ \E p \in Pos :
         /\ mpPosition' = p
         /\ mpCalls' = IF mpHasCallback THEN Append(mpCalls, mpPosition')
                                        ELSE mpCalls
    /\ mpOp' = "move"
    /\ UNCHANGED <<mpHasCallback, mpListening>>
    /\ UNCHANGED stops
    /\ UNCHANGED strayDetach
    /\ UNCHANGED mpOthers

\* A mousemove after stop(): no handler is registered.
mpMoveUnheard ==
    /\ mpLive
    /\ ~mpListening
    /\ mpOp' = "unheard"
    /\ UNCHANGED <<mpHasCallback, mpListening, mpPosition, mpCalls>>
    /\ UNCHANGED stops
    /\ UNCHANGED strayDetach
    /\ UNCHANGED mpOthers

\* start(): addEventListener('mousemove', this.handleMove).
mpStart ==
    /\ mpLive
    /\ mpListening' = TRUE
    /\ mpOp' = "start"
    /\ UNCHANGED <<mpHasCallback, mpPosition, mpCalls>>
    /\ stops' = 0
    /\ UNCHANGED strayDetach
    /\ UNCHANGED mpOthers

\* stop(): removeEventListener('mousemove', this.handleMove).
mpStop ==
    /\ mpLive
    /\ mpListening' = FALSE
    /\ mpOp' = "stop"
    /\ UNCHANGED <<mpHasCallback, mpPosition, mpCalls>>
    /\ stops' = StopsAfterStop(stops)
    /\ strayDetach' = (strayDetach \/ ~mpListening)
    /\ UNCHANGED mpOthers

(***************************************************************************)
(* ClickDetector                                                           *)
(***************************************************************************)

\* The event type each handler is registered for, and its callback.
ClickCallback ==
    [click |-> "onClick", dblclick |-> "onDoubleClick",
     contextmenu |-> "onRightClick"]

\* `if (this.callbacks.<name>) this.callbacks.<name>(event)`.
Forward(calls, given, name) ==
    IF name \in given THEN Append(calls, name) ELSE calls

\* The page has constructed a ClickDetector.
cdLive == cdOp # "absent"

\* The constructor: fields set, handlers bound, then this.start().
cdInit ==
    /\ cdCallbacks \in SUBSET {ClickCallback[t] : t \in DOMAIN ClickCallback}
    /\ cdListening = TRUE
    /\ cdOp = "new"
    /\ cdCalls = <<>>

\* A click, dblclick or contextmenu on the element while the handlers are
\* registered.
cdEvent ==
    /\ cdLive
    /\ cdListening
    /\ Len(cdCalls) < MaxAdapterCalls
    /\ \E type \in DOMAIN ClickCallback :
         /\ cdCalls' = Forward(cdCalls, cdCallbacks, ClickCallback[type])
         /\ cdOp' = type
    /\ UNCHANGED <<cdCallbacks, cdListening>>
    /\ UNCHANGED stops
    /\ UNCHANGED strayDetach
    /\ UNCHANGED cdOthers

\* One of these events after stop(): no handler is registered.
cdUnheard ==
    /\ cdLive
    /\ ~cdListening
    /\ cdOp' = "unheard"
    /\ UNCHANGED <<cdCallbacks, cdListening, cdCalls>>
    /\ UNCHANGED stops
    /\ UNCHANGED strayDetach
    /\ UNCHANGED cdOthers

\* start(): the three addEventListener calls.
cdStart ==
    /\ cdLive
    /\ cdListening' = TRUE
    /\ cdOp' = "start"
    /\ UNCHANGED <<cdCallbacks, cdCalls>>
    /\ stops' = 0
    /\ UNCHANGED strayDetach
    /\ UNCHANGED cdOthers

\* stop(): the three removeEventListener calls.
cdStop ==
    /\ cdLive
    /\ cdListening' = FALSE
    /\ cdOp' = "stop"
    /\ UNCHANGED <<cdCallbacks, cdCalls>>
    /\ stops' = StopsAfterStop(stops)
    /\ strayDetach' = (strayDetach \/ ~cdListening)
    /\ UNCHANGED cdOthers

(***************************************************************************)
(* HoverTracker and MouseEnterLeave                                        *)
(***************************************************************************)

\* The event type each handler is registered for, its callback and the
\* value it stores.
EnterLeaveCallback == [mouseenter |-> "onEnter", mouseleave |-> "onLeave"]
EnterLeaveValue == [mouseenter |-> TRUE, mouseleave |-> FALSE]

\* The page has constructed a HoverTracker.
htLive == htOp # "absent"

\* The constructor: fields set, handlers bound, then this.start().
htInit ==
    /\ htCallbacks \in SUBSET {"onEnter", "onLeave"}
    /\ htListening = TRUE
    /\ isHovering = FALSE
    /\ htOp = "new"
    /\ htCalls = <<>>

\* A mouseenter or mouseleave on the element while the handlers are
\* registered: handleEnter / handleLeave.
htEvent ==
    /\ htLive
    /\ htListening
    /\ Len(htCalls) < MaxAdapterCalls
    /\ \E type \in DOMAIN EnterLeaveCallback :
         /\ isHovering' = EnterLeaveValue[type]
         /\ htCalls' = Forward(htCalls, htCallbacks, EnterLeaveCallback[type])
         /\ htOp' = type
    /\ UNCHANGED <<htCallbacks, htListening>>
    /\ UNCHANGED stops
    /\ UNCHANGED strayDetach
    /\ UNCHANGED htOthers

\* One of these events after stop(): no handler is registered.
htUnheard ==
    /\ htLive
    /\ ~htListening
    /\ htOp' = "unheard"
    /\ UNCHANGED <<htCallbacks, htListening, isHovering, htCalls>>
    /\ UNCHANGED stops
    /\ UNCHANGED strayDetach
    /\ UNCHANGED htOthers

\* start(): the two addEventListener calls.
htStart ==
    /\ htLive
    /\ htListening' = TRUE
    /\ htOp' = "start"
    /\ UNCHANGED <<htCallbacks, isHovering, htCalls>>
    /\ stops' = 0
    /\ UNCHANGED strayDetach
    /\ UNCHANGED htOthers

\* stop(): the two removeEventListener calls.
htStop ==
    /\ htLive
    /\ htListening' = FALSE
    /\ htOp' = "stop"
    /\ UNCHANGED <<htCallbacks, isHovering, htCalls>>
    /\ stops' = StopsAfterStop(stops)
    /\ strayDetach' = (strayDetach \/ ~htListening)
    /\ UNCHANGED htOthers

\* The page has constructed a MouseEnterLeave.
elLive == elOp # "absent"

\* The constructor: fields set, handlers bound, then this.start().
elInit ==
    /\ elCallbacks \in SUBSET {"onEnter", "onLeave"}
    /\ elListening = TRUE
    /\ isInside = FALSE
    /\ elOp = "new"
    /\ elCalls = <<>>

\* A mouseenter or mouseleave on the element while the handlers are
\* registered: handleEnter / handleLeave.
elEvent ==
    /\ elLive
    /\ elListening
    /\ Len(elCalls) < MaxAdapterCalls
    /\ \E type \in DOMAIN EnterLeaveCallback :
         /\ isInside' = EnterLeaveValue[type]
         /\ elCalls' = Forward(elCalls, elCallbacks, EnterLeaveCallback[type])
         /\ elOp' = type
    /\ UNCHANGED <<elCallbacks, elListening>>
    /\ UNCHANGED stops
    /\ UNCHANGED strayDetach
    /\ UNCHANGED elOthers

\* One of these events after stop(): no handler is registered.
elUnheard ==
    /\ elLive
    /\ ~elListening
    /\ elOp' = "unheard"
    /\ UNCHANGED <<elCallbacks, elListening, isInside, elCalls>>
    /\ UNCHANGED stops
    /\ UNCHANGED strayDetach
    /\ UNCHANGED elOthers

\* start(): the two addEventListener calls.
elStart ==
    /\ elLive
    /\ elListening' = TRUE
    /\ elOp' = "start"
    /\ UNCHANGED <<elCallbacks, isInside, elCalls>>
    /\ stops' = 0
    /\ UNCHANGED strayDetach
    /\ UNCHANGED elOthers

\* stop(): the two removeEventListener calls.
elStop ==
    /\ elLive
    /\ elListening' = FALSE
    /\ elOp' = "stop"
    /\ UNCHANGED <<elCallbacks, isInside, elCalls>>
    /\ stops' = StopsAfterStop(stops)
    /\ strayDetach' = (strayDetach \/ ~elListening)
    /\ UNCHANGED elOthers

(***************************************************************************)
(* ScrollWheel                                                             *)
(***************************************************************************)

\* A direction that counts a wheel at rest as scrolling down.
DirectionNonNegative(deltaY) == IF deltaY >= 0 THEN "down" ELSE "up"

\* `event.deltaY > 0 ? 'down' : 'up'`.
Direction(deltaY) == IF deltaY > 0 THEN "down" ELSE "up"

\* The data object handleWheel builds (`event.deltaZ || 0` is deltaZ for a
\* number).
WheelData(deltaX, deltaY, deltaZ) ==
    [deltaX |-> deltaX, deltaY |-> deltaY, deltaZ |-> deltaZ,
     direction |-> Direction(deltaY)]

\* A wheel event, by the fields handleWheel reads.
WheelEvent(deltaX, deltaY, deltaZ) ==
    [deltaX |-> deltaX, deltaY |-> deltaY, deltaZ |-> deltaZ]

\* `this.callback(data, event)`.
WheelCall(event) ==
    [data |-> WheelData(event.deltaX, event.deltaY, event.deltaZ),
     event |-> event]

\* The page has constructed a ScrollWheel.
swLive == swOp # "absent"

\* The constructor: fields set, handler bound, then this.start().
swInit ==
    /\ swHasCallback \in BOOLEAN
    /\ swListening = TRUE
    /\ swOp = "new"
    /\ swCalls = <<>>

\* A wheel event on the element while handleWheel is registered.
swWheel ==
    /\ swLive
    /\ swListening
    /\ Len(swCalls) < MaxAdapterCalls
    /\ \E dx \in WheelDeltas, dy \in WheelDeltas, dz \in WheelDepths :
         swCalls' = IF swHasCallback
                    THEN Append(swCalls, WheelCall(WheelEvent(dx, dy, dz)))
                    ELSE swCalls
    /\ swOp' = "wheel"
    /\ UNCHANGED <<swHasCallback, swListening>>
    /\ UNCHANGED stops
    /\ UNCHANGED strayDetach
    /\ UNCHANGED swOthers

\* A wheel event after stop(): no handler is registered.
swWheelUnheard ==
    /\ swLive
    /\ ~swListening
    /\ swOp' = "unheard"
    /\ UNCHANGED <<swHasCallback, swListening, swCalls>>
    /\ UNCHANGED stops
    /\ UNCHANGED strayDetach
    /\ UNCHANGED swOthers

\* start(): addEventListener('wheel', this.handleWheel).
swStart ==
    /\ swLive
    /\ swListening' = TRUE
    /\ swOp' = "start"
    /\ UNCHANGED <<swHasCallback, swCalls>>
    /\ stops' = 0
    /\ UNCHANGED strayDetach
    /\ UNCHANGED swOthers

\* stop(): removeEventListener('wheel', this.handleWheel).
swStop ==
    /\ swLive
    /\ swListening' = FALSE
    /\ swOp' = "stop"
    /\ UNCHANGED <<swHasCallback, swCalls>>
    /\ stops' = StopsAfterStop(stops)
    /\ strayDetach' = (strayDetach \/ ~swListening)
    /\ UNCHANGED swOthers

(***************************************************************************)
(* Specifications                                                          *)
(***************************************************************************)

\* A component the page does not use: it is never constructed, no listener
\* of it is registered and none of its operations runs.
ccAtRest ==
    /\ optTimeWindow = [given |-> FALSE, value |-> 0]
    /\ timeWindow = DefaultWindow
    /\ hasCallback = FALSE
    /\ clicks = <<>>
    /\ ccListening = FALSE
    /\ now = 0
    /\ ccOp = "absent"
    /\ ccPrevOp = "none"
    /\ ccRet = -1
    /\ ccRecorded = <<>>
    /\ ccWasReset = FALSE
    /\ ccCalls = <<>>
    /\ ccDispatched = 0
    /\ ccHandled = <<>>

ddAtRest ==
    /\ ddCallbacks = {}
    /\ isDragging = FALSE
    /\ startPos = Origin
    /\ currentPos = Origin
    /\ ddElem = FALSE
    /\ ddDoc = {}
    /\ ddOp = "absent"
    /\ ddPhase = "idle"
    /\ ddPress = Origin
    /\ ddMoves = <<>>
    /\ ddUp = Event("none", Origin)
    /\ ddLog = <<>>
    /\ ddIdleEvents = 0
    /\ ddPresses = 0

mtAtRest ==
    /\ mtHasCallback = FALSE
    /\ mtListening = FALSE
    /\ lastPos = Origin
    /\ mtNow = 0
    /\ lastTime = 0
    /\ velocity = ZeroVector
    /\ mtOp = "absent"
    /\ mtRet = [live |-> FALSE, shared |-> FALSE, value |-> ZeroVector]
    /\ mtCalls = <<>>
    /\ mtSeen = <<>>

mbAtRest ==
    /\ buttons = NoButtons
    /\ mbListening = FALSE
    /\ mbOp = "absent"
    /\ mbAsked = "left"
    /\ mbRet = Boolean(FALSE)
    /\ mbLast = [i \in ButtonIndices |-> "none"]

cuAtRest ==
    /\ smooth = FALSE
    /\ offset = Origin
    /\ cuCurrentPos = Point(Origin)
    /\ cuTargetPos = Point(Origin)
    /\ animationFrame = 0
    /\ cuListening = FALSE
    /\ cuPending = {}
    /\ cuRequested = 0
    /\ cuShown = Point(Origin)
    /\ cuOp = "absent"
    /\ cuPaints = 0
    /\ cuMoves = <<>>

mpAtRest ==
    /\ mpHasCallback = FALSE
    /\ mpListening = FALSE
    /\ mpPosition = Origin
    /\ mpOp = "absent"
    /\ mpCalls = <<>>

cdAtRest ==
    /\ cdCallbacks = {}
    /\ cdListening = FALSE
    /\ cdOp = "absent"
    /\ cdCalls = <<>>

htAtRest ==
    /\ htCallbacks = {}
    /\ htListening = FALSE
    /\ isHovering = FALSE
    /\ htOp = "absent"
    /\ htCalls = <<>>

elAtRest ==
    /\ elCallbacks = {}
    /\ elListening = FALSE
    /\ isInside = FALSE
    /\ elOp = "absent"
    /\ elCalls = <<>>

swAtRest ==
    /\ swHasCallback = FALSE
    /\ swListening = FALSE
    /\ swOp = "absent"
    /\ swCalls = <<>>

ccNext ==
    \/ ccTick
    \/ ccClick
    \/ ccClickUnheard
    \/ ccStart
    \/ ccStop
    \/ ccGetCount
    \/ ccReset

ddNext ==
    \/ ddMouseDown
    \/ ddMouseDownUnheard
    \/ ddMouseMove
    \/ ddMouseMoveUnheard
    \/ ddMouseUp
    \/ ddMouseUpUnheard
    \/ ddHandleMouseMove
    \/ ddHandleMouseUp
    \/ ddStart
    \/ ddStop

mtNext ==
    \/ mtClock
    \/ mtMove
    \/ mtMoveUnheard
    \/ mtStart
    \/ mtStop
    \/ mtGetVelocity
    \/ mtScribble

mbNext ==
    \/ mbMouseDown
    \/ mbMouseUp
    \/ mbUnheard
    \/ mbStart
    \/ mbStop
    \/ mbIsPressed

cuNext ==
    \/ cuMove
    \/ cuMoveUnheard
    \/ cuTick
    \/ cuStart
    \/ cuStop

mpNext ==
    \/ mpMove
    \/ mpMoveUnheard
    \/ mpStart
    \/ mpStop

cdNext ==
    \/ cdEvent
    \/ cdUnheard
    \/ cdStart
    \/ cdStop

htNext ==
    \/ htEvent
    \/ htUnheard
    \/ htStart
    \/ htStop

elNext ==
    \/ elEvent
    \/ elUnheard
    \/ elStart
    \/ elStop

swNext ==
    \/ swWheel
    \/ swWheelUnheard
    \/ swStart
    \/ swStop

\* Every component but the one named is not constructed.
ccAlone ==
    /\ ddAtRest
    /\ mtAtRest
    /\ mbAtRest
    /\ cuAtRest
    /\ mpAtRest
    /\ cdAtRest
    /\ htAtRest
    /\ elAtRest
    /\ swAtRest
    /\ stops = 0
    /\ strayDetach = FALSE

ddAlone ==
    /\ ccAtRest
    /\ mtAtRest
    /\ mbAtRest
    /\ cuAtRest
    /\ mpAtRest
    /\ cdAtRest
    /\ htAtRest
    /\ elAtRest
    /\ swAtRest
    /\ stops = 0
    /\ strayDetach = FALSE

mtAlone ==
    /\ ccAtRest
    /\ ddAtRest
    /\ mbAtRest
    /\ cuAtRest
    /\ mpAtRest
    /\ cdAtRest
    /\ htAtRest
    /\ elAtRest
    /\ swAtRest
    /\ stops = 0
    /\ strayDetach = FALSE

mbAlone ==
    /\ ccAtRest
    /\ ddAtRest
    /\ mtAtRest
    /\ cuAtRest
    /\ mpAtRest
    /\ cdAtRest
    /\ htAtRest
    /\ elAtRest
    /\ swAtRest
    /\ stops = 0
    /\ strayDetach = FALSE

cuAlone ==
    /\ ccAtRest
    /\ ddAtRest
    /\ mtAtRest
    /\ mbAtRest
    /\ mpAtRest
    /\ cdAtRest
    /\ htAtRest
    /\ elAtRest
    /\ swAtRest
    /\ stops = 0
    /\ strayDetach = FALSE

mpAlone ==
    /\ ccAtRest
    /\ ddAtRest
    /\ mtAtRest
    /\ mbAtRest
    /\ cuAtRest
    /\ cdAtRest
    /\ htAtRest
    /\ elAtRest
    /\ swAtRest
    /\ stops = 0
    /\ strayDetach = FALSE

cdAlone ==
    /\ ccAtRest
    /\ ddAtRest
    /\ mtAtRest
    /\ mbAtRest
    /\ cuAtRest
    /\ mpAtRest
    /\ htAtRest
    /\ elAtRest
    /\ swAtRest
    /\ stops = 0
    /\ strayDetach = FALSE

htAlone ==
    /\ ccAtRest
    /\ ddAtRest
    /\ mtAtRest
    /\ mbAtRest
    /\ cuAtRest
    /\ mpAtRest
    /\ cdAtRest
    /\ elAtRest
    /\ swAtRest
    /\ stops = 0
    /\ strayDetach = FALSE

elAlone ==
    /\ ccAtRest
    /\ ddAtRest
    /\ mtAtRest
    /\ mbAtRest
    /\ cuAtRest
    /\ mpAtRest
    /\ cdAtRest
    /\ htAtRest
    /\ swAtRest
    /\ stops = 0
    /\ strayDetach = FALSE

swAlone ==
    /\ ccAtRest
    /\ ddAtRest
    /\ mtAtRest
    /\ mbAtRest
    /\ cuAtRest
    /\ mpAtRest
    /\ cdAtRest
    /\ htAtRest
    /\ elAtRest
    /\ stops = 0
    /\ strayDetach = FALSE

\* One component is exercised; the others are not constructed.
InitClickCounter == ccInit /\ ccAlone

InitDragAndDrop == ddInit /\ ddAlone

InitMovementTracker == mtInit /\ mtAlone

InitMouseButtons == mbInit /\ mbAlone

InitCustomCursor == cuInit /\ cuAlone

\* The page constructs one component, whichever, and gives it every callback
\* it takes (a ClickCounter keeps the default window).
InitAnyComponent ==
    \E c \in {"cc", "dd", "mt", "mb", "cu", "mp", "cd", "ht", "el", "sw"} :
        CASE c = "cc" -> ccInit /\ ccAlone /\ hasCallback
                                /\ ~optTimeWindow.given
          [] c = "dd" -> ddInit /\ ddAlone /\ ddCallbacks = CallbackNames
          [] c = "mt" -> mtInit /\ mtAlone /\ mtHasCallback
          [] c = "mb" -> mbInit /\ mbAlone
          [] c = "cu" -> cuInit /\ cuAlone
          [] c = "mp" -> mpInit /\ mpAlone /\ mpHasCallback
          [] c = "cd" -> cdInit /\ cdAlone
                                /\ cdCallbacks = {"onClick", "onDoubleClick",
                                                  "onRightClick"}
          [] c = "ht" -> htInit /\ htAlone /\ htCallbacks = {"onEnter", "onLeave"}
          [] c = "el" -> elInit /\ elAlone /\ elCallbacks = {"onEnter", "onLeave"}
          [] c = "sw" -> swInit /\ swAlone /\ swHasCallback

NextAnyComponent ==
    \/ ccTick
    \/ ccClick
    \/ ccClickUnheard
    \/ ccStart
    \/ ccStop
    \/ ccGetCount
    \/ ccReset
    \/ ddMouseDown
    \/ ddMouseDownUnheard
    \/ ddMouseMove
    \/ ddMouseMoveUnheard
    \/ ddMouseUp
    \/ ddMouseUpUnheard
    \/ ddHandleMouseMove
    \/ ddHandleMouseUp
    \/ ddStart
    \/ ddStop
    \/ mtClock
    \/ mtMove
    \/ mtMoveUnheard
    \/ mtStart
    \/ mtStop
    \/ mtGetVelocity
    \/ mtScribble
    \/ mbMouseDown
    \/ mbMouseUp
    \/ mbUnheard
    \/ mbStart
    \/ mbStop
    \/ mbIsPressed
    \/ cuMove
    \/ cuMoveUnheard
    \/ cuTick
    \/ cuStart
    \/ cuStop
    \/ mpMove
    \/ mpMoveUnheard
    \/ mpStart
    \/ mpStop
    \/ cdEvent
    \/ cdUnheard
    \/ cdStart
    \/ cdStop
    \/ htEvent
    \/ htUnheard
    \/ htStart
    \/ htStop
    \/ elEvent
    \/ elUnheard
    \/ elStart
    \/ elStop
    \/ swWheel
    \/ swWheelUnheard
    \/ swStart
    \/ swStop

SpecClickCounter == InitClickCounter /\ [][ccNext]_vars

SpecDragAndDrop == InitDragAndDrop /\ [][ddNext]_vars

SpecMovementTracker == InitMovementTracker /\ [][mtNext]_vars

SpecMouseButtons == InitMouseButtons /\ [][mbNext]_vars

SpecCustomCursor == InitCustomCursor /\ [][cuNext]_vars

InitScrollWheel == swInit /\ swAlone

SpecScrollWheel == InitScrollWheel /\ [][swNext]_vars

SpecAnyComponent == InitAnyComponent /\ [][NextAnyComponent]_vars

(***************************************************************************)
(* Properties of the ClickCounter                                          *)
(***************************************************************************)

\* Number of the clicks recorded since the last reset() that are younger
\* than the window at clock value n.
FreshRecorded(n) ==
    Cardinality({i \in DOMAIN ccRecorded : n - ccRecorded[i] < timeWindow})

LastCall == ccCalls[Len(ccCalls)]

\* C1: when getCount() returns at clock value now, every timestamp left in
\* the log satisfies now - t < timeWindow, and the value returned is the
\* number of clicks recorded since the last reset() with now - t < timeWindow.
C1_ReadSeesExactlyFreshClicks ==
    ccOp = "getCount" =>
        /\ \A i \in DOMAIN clicks : now - clicks[i] < timeWindow
        /\ ccRet = FreshRecorded(now)

\* A read that found some clicks expired and some still fresh.
C1_Witness ==
    /\ ccOp = "getCount"
    /\ ccRet > 0
    /\ ccRet < Len(ccRecorded)

\* C2: after a click is handled at clock value now the log holds no entry
\* with now - timestamp >= timeWindow (append, then evict), and the count
\* given to the callback is the resulting log length, which is the number of
\* clicks recorded since the last reset() (this one included) whose age is
\* strictly less than timeWindow.
C2_ClickAppendsThenEvicts ==
    (ccOp = "click" /\ hasCallback) =>
        /\ \A i \in DOMAIN clicks : now - clicks[i] < timeWindow
        /\ LastCall.count = Len(clicks)
        /\ LastCall.count = FreshRecorded(now)

\* C3: the callback is invoked exactly once for every click delivered while
\* the counter is listening, with (count, that event), and by nothing else:
\* the invocations are, in order, those of the handled click events.
C3_OneCallbackPerHandledClick ==
    /\ hasCallback =>
        /\ Len(ccCalls) = Len(ccHandled)
        /\ \A i \in DOMAIN ccCalls : ccCalls[i].event = ccHandled[i]
        /\ ccOp = "click" => LastCall.count = Len(clicks)
    /\ ~hasCallback => ccCalls = <<>>

\* Two clicks were heard and one was not, and reset() and getCount() ran.
C3_Witness ==
    /\ hasCallback
    /\ Len(ccHandled) = 2
    /\ ccDispatched = 3
    /\ ccWasReset
    /\ ccRet >= 0
    /\ ccOp = "start"

\* C4: a getCount() leaves exactly the entries with now - t < timeWindow, in
\* their original order, and returns their number; a getCount() that follows
\* a getCount() at the same clock value returns the same number and leaves
\* the log as it was.
C4_GetCountIdempotent ==
    [][ccOp' = "getCount" =>
         LET Young(t) == now - t < timeWindow
         IN  /\ clicks' = SelectSeq(clicks, Young)
             /\ ccRet' = Len(clicks')
             /\ ccOp = "getCount" => (ccRet' = ccRet /\ clicks' = clicks)]_vars

\* A second read in a row, after a read that evicted with no click since the
\* clock advanced.
C4_Witness ==
    /\ ccOp = "getCount"
    /\ ccPrevOp = "getCount"
    /\ Len(clicks) > 0
    /\ Len(clicks) < Len(ccRecorded)

\* C5: reset() empties the log; a getCount() after a reset() with no click
\* in between returns 0, and the first click after a reset() reports 1.
C5_ResetClearsLog ==
    /\ ccOp = "reset" => clicks = <<>>
    /\ (ccWasReset /\ ccRecorded = <<>> /\ ccOp = "getCount") => ccRet = 0
    /\ (ccWasReset /\ Len(ccRecorded) = 1 /\ ccOp = "click" /\ hasCallback)
           => LastCall.count = 1

\* Two clicks still inside the window were reported, then reset(), then a
\* third click.
C5_Witness ==
    /\ ccWasReset
    /\ Len(ccRecorded) = 1
    /\ ccOp = "click"
    /\ hasCallback
    /\ Len(ccCalls) = 3
    /\ ccCalls[2].count = 2
    /\ timeWindow = DefaultWindow

\* C6: the effective window is strictly positive whatever options.timeWindow
\* the constructor was given, and it is 2000 when none was given.
C6_WindowStrictlyPositive ==
    /\ timeWindow > 0
    /\ ~optTimeWindow.given => timeWindow = 2000

\* The clicks recorded are those at t, t+1 and t+window-1 (in clock order)
\* and getCount() has just returned at t+window+1.
C7_Scenario ==
    /\ timeWindow > 0
    /\ Len(ccRecorded) = 3
    /\ LET t == ccRecorded[1]
       IN  /\ \/ timeWindow = 1 /\ ccRecorded = <<t, t, t + 1>>
              \/ timeWindow >= 2
                   /\ ccRecorded = <<t, t + 1, t + timeWindow - 1>>
           /\ now = t + timeWindow + 1
    /\ ccOp = "getCount"

\* C7 (as stated): after clicks at t, t+1 and t+window-1, getCount() at
\* t+window+1 returns 0.
C7_AllThreeExpired == C7_Scenario => ccRet = 0

\* C7 (amended): after clicks at t, t+1 and t+window-1, getCount() at
\* t+window+1 returns 1 when window >= 3 (the click at t+window-1 is only 2
\* old) and 0 when window is 1 or 2.
C7_LastClickSurvives ==
    C7_Scenario => ccRet = (IF timeWindow >= 3 THEN 1 ELSE 0)

C7_Witness == C7_Scenario /\ timeWindow = 3 /\ ccRet = 1

\* Window 1000, clicks at 0, 100 and 200, getCount() has just returned.
C8_Scenario ==
    /\ timeWindow = 1000
    /\ ccRecorded = <<0, 100, 200>>
    /\ ccOp = "getCount"

\* C8 (as stated): with window 1000 and clicks at 0, 100 and 200,
\* getCount() at 250 returns 3 and getCount() at 1050 returns 0.
C8_ExampleAsStated ==
    C8_Scenario =>
        /\ now = 250 => ccRet = 3
        /\ now = 1050 => ccRet = 0

\* C8 (amended): with window 1000 and clicks at 0, 100 and 200, getCount()
\* at 250 returns 3 and getCount() at 1050 returns 2 (only the click at 0
\* is 1000 or more old).
C8_ExampleAmended ==
    C8_Scenario =>
        /\ now = 250 => ccRet = 3
        /\ now = 1050 => ccRet = 2

C8_Witness == C8_Scenario /\ now = 1050 /\ ccRet = 2 /\ ccPrevOp = "tick"

(***************************************************************************)
(* Properties of DragAndDrop                                               *)
(***************************************************************************)

\* The position the gesture has reached: its last move, or the press.
GestureEnd == IF ddMoves = <<>> THEN ddPress ELSE ddMoves[Len(ddMoves)]

\* The callback invocations the gesture (press ddPress, moves ddMoves and,
\* once released, release ddUp) is due, for the callbacks that were given.
GestureCalls ==
    LET started == <<[cb |-> "onStart", event |-> Event("mousedown", ddPress),
                      pos |-> ddPress]>>
        dragged == [i \in 1..Len(ddMoves) |->
                      [cb |-> "onDrag",
                       event |-> Event("mousemove", ddMoves[i]),
                       pos |-> ddMoves[i],
                       delta |-> [x |-> ddMoves[i].x - ddPress.x,
                                  y |-> ddMoves[i].y - ddPress.y]]]
        ended == IF ddPhase = "released"
                 THEN <<[cb |-> "onEnd", event |-> ddUp, pos |-> GestureEnd,
                         delta |-> [x |-> GestureEnd.x - ddPress.x,
                                    y |-> GestureEnd.y - ddPress.y]]>>
                 ELSE <<>>
        Given(c) == c.cb \in ddCallbacks
    IN  SelectSeq(started \o dragged \o ended, Given)

\* C9: from a press at p, through the moves m1..mn to the release and
\* beyond it until the next press, the callbacks invoked are onStart once
\* with p, onDrag once per move with (mi, mi - p), and after the release
\* onEnd once with the final delta, and nothing else; during the gesture the
\* document listeners are attached and isDragging is true, after the release
\* they are detached and isDragging is false.
C9_GestureLifecycle ==
    /\ ddPhase \in {"pressed", "released"} => ddLog = GestureCalls
    /\ ddPhase = "pressed" =>
           isDragging /\ ddDoc = {"mousemove", "mouseup"}
    /\ ddPhase = "released" => ~isDragging /\ ddDoc = {}

\* Press at (5,5), a move, a move to (15,5), a release elsewhere, and then a
\* move that nothing hears; all three callbacks given.
C9_Witness ==
    /\ ddCallbacks = CallbackNames
    /\ ddPhase = "released"
    /\ ddPress = [x |-> 5, y |-> 5]
    /\ Len(ddMoves) = 2
    /\ ddMoves[2] = [x |-> 15, y |-> 5]
    /\ EventPos(ddUp) # ddMoves[2]
    /\ Len(ddLog) = 4
    /\ ddIdleEvents > 0
    /\ ddOp = "mousemoveUnheard"

\* C10: after stop() no listener of the tracker is registered and no
\* session is left (isDragging is false); a stop() during a drag does not
\* invoke onEnd; and isDragging is true only while a gesture is in progress
\* (pressed, not yet released, not stopped).
C10_StopDiscardsSession ==
    /\ ddOp = "stop" => ~ddElem /\ ddDoc = {} /\ ~isDragging
    /\ ddPhase = "aborted" => \A i \in DOMAIN ddLog : ddLog[i].cb # "onEnd"
    /\ isDragging => InGesture

\* The tracker's own fields and listener registrations.
ddTracked == <<isDragging, startPos, currentPos, ddElem, ddDoc>>

\* C11: while the tracker is Idle (before any press, or after a release), a
\* move or a release that handleMouseMove / handleMouseUp gets to handle
\* invokes no callback and leaves isDragging, startPos, currentPos and the
\* registered listeners as they were.
C11_IdleMoveAndReleaseIgnored ==
    [][(/\ ddPhase \in {"idle", "released"}
        /\ ddOp' \in {"mousemove", "mouseup",
                      "handleMouseMove", "handleMouseUp"})
          => UNCHANGED <<ddTracked, ddLog>>]_vars

\* After a complete gesture that invoked all three callbacks, a release
\* was handled by handleMouseUp once more.
C11_Witness ==
    /\ ddPhase = "released"
    /\ ddOp = "handleMouseUp"
    /\ ddCallbacks = CallbackNames
    /\ Len(ddLog) = 3
    /\ ~isDragging

(***************************************************************************)
(* Properties of the MovementTracker                                       *)
(***************************************************************************)

LastSeen == mtSeen[Len(mtSeen)]

\* The handled moves that satisfy Q, in order.
SeenWith(Q(_)) == SelectSeq(mtSeen, Q)

Advanced(e) == e.deltaTime > 0

NotSimultaneous(e) == e.deltaTime # 0

\* C12: a move handled at the clock value of the previous event
\* (deltaTime = 0) invokes no callback and leaves the stored velocity, and
\* sets the stored last position to its coordinates and the stored last time
\* to its time.
C12_ZeroDeltaTimeSkipsButRecords ==
    [][(mtOp' = "move" /\ Len(mtSeen') > Len(mtSeen) /\ mtNow = lastTime)
          => /\ mtCalls' = mtCalls
             /\ velocity' = velocity
             /\ lastPos' = mtSeen'[Len(mtSeen')].pos
             /\ lastTime' = mtNow]_vars

\* A move elsewhere at the instant of the previous event, then a move later
\* on that emitted a displacement measured from it.
C12_Witness ==
    /\ mtHasCallback
    /\ mtOp = "move"
    /\ \E k \in DOMAIN mtSeen :
          /\ k + 1 = Len(mtSeen)
          /\ mtSeen[k].deltaTime = 0
          /\ mtSeen[k].pos # mtSeen[k].from
          /\ mtSeen[k + 1].deltaTime > 0
          /\ mtSeen[k + 1].from = mtSeen[k].pos
          /\ mtSeen[k + 1].pos # mtSeen[k].pos
    /\ Len(mtCalls) = 1
    /\ mtCalls[1].velocity # ZeroVector

\* C13 (as stated): the callback is invoked once for each handled move with
\* deltaTime # 0, and for no other.
C13_EmitsUnlessZero ==
    mtHasCallback =>
        /\ Len(mtCalls) = Len(SeenWith(NotSimultaneous))
        /\ \A i \in DOMAIN mtCalls :
               mtCalls[i].position = SeenWith(NotSimultaneous)[i].pos

\* C13 (amended): the callback is invoked once, with that event's position,
\* for each handled move with deltaTime > 0, and for no other: a move with
\* deltaTime = 0 or with deltaTime < 0 (the wall clock was set back) is
\* skipped.
C13_EmitsWhenPositive ==
    mtHasCallback =>
        /\ Len(mtCalls) = Len(SeenWith(Advanced))
        /\ \A i \in DOMAIN mtCalls :
               mtCalls[i].position = SeenWith(Advanced)[i].pos

\* Moves with a negative, a zero and a positive deltaTime were handled.
C13_Witness ==
    /\ mtHasCallback
    /\ Len(mtSeen) = 3
    /\ \E i, j, k \in DOMAIN mtSeen :
          /\ mtSeen[i].deltaTime < 0
          /\ mtSeen[j].deltaTime = 0
          /\ mtSeen[k].deltaTime > 0
    /\ Len(mtCalls) = 1

\* The velocity of the most recent handled move with deltaTime > 0, and the
\* zero vector when there is none.
LatestVelocity ==
    LET q == SeenWith(Advanced)
    IN  IF q = <<>> THEN ZeroVector
        ELSE LET e == q[Len(q)]
             IN  [x |-> Quotient(e.pos.x - e.from.x, e.deltaTime),
                  y |-> Quotient(e.pos.y - e.from.y, e.deltaTime)]

\* C14: the stored velocity is always the zero vector before any qualifying
\* move and the velocity of the most recent qualifying move afterwards
\* (whatever skipped moves, getVelocity(), stop() and writes to a returned
\* object came since), and getVelocity() returns it.
C14_GetVelocityReturnsLatest ==
    /\ velocity = LatestVelocity
    /\ mtOp = "getVelocity" => mtRet.value = LatestVelocity

\* A non-zero velocity was returned by getVelocity() after a skipped move
\* and a stop(), and the caller overwrote the returned object.
C14_Witness ==
    /\ mtOp = "scribble"
    /\ velocity # ZeroVector
    /\ mtRet.value # velocity
    /\ ~mtListening
    /\ Len(mtSeen) >= 2
    /\ ~Advanced(LastSeen)

\* The callback invocations belong, in order, to the handled moves with
\* deltaTime > 0.
Emitted(i) == SeenWith(Advanced)[i]

\* C20: each emitted velocity times deltaTime is the move's displacement,
\* the speed is the non-negative root of velocity.x^2 + velocity.y^2 and the
\* position is the event's; a move from (0,0) by (10,0) in 100 gives
\* velocity (1/10, 0), speed 1/10 and angle 0, and a move from (0,0) to
\* (0,10) in 100 gives angle 90.
C20_VelocitySpeedAngle ==
    (mtHasCallback /\ Len(mtCalls) = Len(SeenWith(Advanced))) =>
      \A i \in DOMAIN mtCalls :
        LET c == mtCalls[i]
            e == Emitted(i)
            dt == Quotient(e.deltaTime, 1)
            sq == Plus(Times(c.velocity.x, c.velocity.x),
                       Times(c.velocity.y, c.velocity.y))
        IN  /\ Times(c.velocity.x, dt) = Quotient(e.pos.x - e.from.x, 1)
            /\ Times(c.velocity.y, dt) = Quotient(e.pos.y - e.from.y, 1)
            /\ IF c.speed.exact
               THEN c.speed.val.n >= 0 /\ Times(c.speed.val, c.speed.val) = sq
               ELSE c.speed.val = sq
            /\ c.position = e.pos
            /\ (e.from = [x |-> 0, y |-> 0] /\ e.deltaTime = 100) =>
                 /\ e.pos = [x |-> 10, y |-> 0] =>
                      /\ c.velocity = [x |-> Quotient(1, 10), y |-> Zero]
                      /\ c.speed = [exact |-> TRUE, val |-> Quotient(1, 10)]
                      /\ c.angle = 0
                 /\ e.pos = [x |-> 0, y |-> 10] => c.angle = 90

\* Both example moves were emitted: (0,0) to (10,0) in 100, and, after a
\* move back to (0,0), (0,0) to (0,10) in 100.
C20_Witness ==
    /\ mtHasCallback
    /\ Len(mtCalls) = 2
    /\ Len(mtSeen) = 3
    /\ mtSeen[1] = [pos |-> [x |-> 10, y |-> 0], from |-> [x |-> 0, y |-> 0],
                    deltaTime |-> 100]
    /\ mtSeen[3] = [pos |-> [x |-> 0, y |-> 10], from |-> [x |-> 0, y |-> 0],
                    deltaTime |-> 100]
    /\ mtCalls[1].angle = 0
    /\ mtCalls[2].angle = 90

(***************************************************************************)
(* Properties of MouseButtons                                              *)
(***************************************************************************)

\* The most recent handled event for button index i was a press.
Held(i) == mbLast[i] = "down"

\* C15: isPressed('left' | 'middle' | 'right') is true exactly when the most
\* recent event for button index 0 | 1 | 2 was a press, whatever happened to
\* the other indices (3 and 4 included), and isPressed of any other name is
\* false.
C15_IsPressedFollowsLastEvent ==
    /\ buttons = [left |-> Held(0), middle |-> Held(1), right |-> Held(2)]
    /\ mbOp = "isPressed" =>
         mbRet = CASE mbAsked = "left" -> Boolean(Held(0))
                   [] mbAsked = "middle" -> Boolean(Held(1))
                   [] mbAsked = "right" -> Boolean(Held(2))
                   [] OTHER -> Boolean(FALSE)

(***************************************************************************)
(* Properties of the CustomCursor                                          *)
(***************************************************************************)

\* C17: with smoothing enabled, from the return of stop() until the next
\* start() no frame request of the follower is pending (so no tick can run
\* update(), repaint or reschedule).
C17_StopCancelsEveryFrame ==
    (smooth /\ cuLive /\ ~cuListening) => cuPending = {}

LastMove == cuMoves[Len(cuMoves)]

\* C18: with smoothing disabled no frame is ever requested, every handled
\* move is painted once, and after a move target is the event position plus
\* the offset, current equals target and that position is the one shown.
C18_UnsmoothedSnapsAndNeverSchedules ==
    (cuLive /\ ~smooth) =>
        /\ cuRequested = 0 /\ cuPending = {} /\ animationFrame = 0
        /\ cuPaints = Len(cuMoves)
        /\ cuCurrentPos = cuTargetPos
        /\ cuShown = cuCurrentPos
        /\ cuMoves # <<>> =>
             cuTargetPos = [x |-> Quotient(LastMove.x + offset.x, 1),
                            y |-> Quotient(LastMove.y + offset.y, 1)]

\* Two moves to different positions with offset (-10,-10), the second one
\* after a stop() and a start().
C18_Witness ==
    /\ cuLive /\ ~smooth
    /\ offset = [x |-> -10, y |-> -10]
    /\ Len(cuMoves) = 2
    /\ cuMoves[1] # cuMoves[2]
    /\ cuOp = "move"
    /\ cuShown = Point([x |-> 0, y |-> 10])

\* The distance left to the target, per axis.
Remaining(current, target) ==
    [x |-> Minus(target.x, current.x), y |-> Minus(target.y, current.y)]

SevenTenths == Quotient(7, 10)

\* C19: with smoothing enabled a move sets target to the event position plus
\* the offset and changes neither current nor what is shown; a tick leaves
\* target, leaves 7/10 of the remaining distance on each axis (so current
\* does not pass target), paints once, and replaces the request it ran by
\* exactly one new request.
C19_SmoothedApproachesTarget ==
    [][smooth =>
         /\ (cuOp' = "move" /\ Len(cuMoves') > Len(cuMoves)) =>
              /\ cuTargetPos' =
                   [x |-> Quotient(cuMoves'[Len(cuMoves')].x + offset.x, 1),
                    y |-> Quotient(cuMoves'[Len(cuMoves')].y + offset.y, 1)]
              /\ UNCHANGED <<cuCurrentPos, cuShown, cuPaints, cuPending>>
         /\ (cuOp' = "tick" /\ cuRequested' > cuRequested) =>
              /\ cuTargetPos' = cuTargetPos
              /\ Remaining(cuCurrentPos', cuTargetPos).x
                   = Times(SevenTenths,
                           Remaining(cuCurrentPos, cuTargetPos).x)
              /\ Remaining(cuCurrentPos', cuTargetPos).y
                   = Times(SevenTenths,
                           Remaining(cuCurrentPos, cuTargetPos).y)
              /\ cuPaints' = cuPaints + 1
              /\ cuShown' = cuCurrentPos'
              /\ Cardinality(cuPending' \ cuPending) = 1
              /\ Cardinality(cuPending \ cuPending') = 1]_vars

\* Two ticks after a move to (10,20): current is 51/100 of the way.
C19_Witness ==
    /\ smooth
    /\ offset = Origin
    /\ cuOp = "tick"
    /\ cuTargetPos = Point([x |-> 10, y |-> 20])
    /\ cuCurrentPos = [x |-> Quotient(51, 10), y |-> Quotient(51, 5)]
    /\ cuPaints = 2

(***************************************************************************)
(* Properties of every component                                           *)
(***************************************************************************)

\* No handler of any component is registered with the host.
NoListeners ==
    /\ ~ccListening
    /\ ~ddElem /\ ddDoc = {}
    /\ ~mtListening
    /\ ~mbListening
    /\ ~cuListening
    /\ ~mpListening
    /\ ~cdListening
    /\ ~htListening
    /\ ~elListening
    /\ ~swListening

\* The step delivers an input event (heard or not) to the component.
InputEvent ==
    \/ ccOp' \in {"click", "unheard"}
    \/ ddOp' \in {"mousedown", "unheard", "mousemove", "mousemoveUnheard",
                  "mouseup", "mouseupUnheard"}
    \/ mtOp' \in {"move", "unheard"}
    \/ mbOp' \in {"mousedown", "mouseup", "unheard"}
    \/ cuOp' \in {"move", "unheard"}
    \/ mpOp' \in {"move", "unheard"}
    \/ cdOp' \in {"click", "dblclick", "contextmenu", "unheard"}
    \/ htOp' \in {"mouseenter", "mouseleave", "unheard"}
    \/ elOp' \in {"mouseenter", "mouseleave", "unheard"}
    \/ swOp' \in {"wheel", "unheard"}

\* What the components track, and the callback invocations they made.
Tracked ==
    <<clicks, isDragging, startPos, currentPos, lastPos, lastTime, velocity,
      buttons, cuCurrentPos, cuTargetPos, cuShown, mpPosition, isHovering,
      isInside>>

Invocations ==
    <<ccCalls, ddLog, mtCalls, cuPaints, mpCalls, cdCalls, htCalls, elCalls,
      swCalls>>

\* C16: for every component, once stop() has been called twice in a row no
\* handler of the component is registered, and until the next start() an
\* input event invokes no callback and changes nothing the component tracks.
C16_StopTwiceLeavesNoListener ==
    [][/\ stops' = 2 => NoListeners'
       /\ (stops = 2 /\ stops' = 2 /\ InputEvent)
             => UNCHANGED <<Tracked, Invocations>>]_vars

\* A DragAndDrop stopped twice in the middle of a drag, then a move.
C16_Witness ==
    /\ stops = 2
    /\ ddLive
    /\ ddPhase = "aborted"
    /\ isDragging
    /\ ddOp = "mousemoveUnheard"

(***************************************************************************)
(* Properties of the ScrollWheel                                           *)
(***************************************************************************)

\* C21: every callback invocation reports 'down' when the event's deltaY is
\* positive and 'up' otherwise, whatever deltaX and deltaZ are, and carries
\* the event's deltaX and deltaY unchanged; a handled wheel event invokes
\* the callback once.
C21_DirectionFollowsDeltaY ==
    [][/\ \A i \in DOMAIN swCalls' :
            LET call == swCalls'[i] IN
            /\ call.data.direction = "down" <=> call.event.deltaY > 0
            /\ call.data.direction = "up" <=> call.event.deltaY <= 0
            /\ call.data.deltaX = call.event.deltaX
            /\ call.data.deltaY = call.event.deltaY
       /\ (swOp' = "wheel" /\ swHasCallback)
             => Len(swCalls') = Len(swCalls) + 1]_vars

\* A purely horizontal scroll was reported as 'up', and a scroll down with
\* the same deltaX as 'down'.
C21_Witness ==
    /\ swLive
    /\ swOp = "wheel"
    /\ Len(swCalls) = 2
    /\ swCalls[1].event.deltaY = 0
    /\ swCalls[1].event.deltaX # 0
    /\ swCalls[1].data.direction = "up"
    /\ swCalls[2].event.deltaY > 0
    /\ swCalls[2].event.deltaX = swCalls[1].event.deltaX
    /\ swCalls[2].data.direction = "down"

(***************************************************************************)
(* Listener ownership                                                      *)
(***************************************************************************)

\* C22: no component ever calls removeEventListener for a handler that is
\* not registered at that moment (no double detach, no detach of a handler
\* it has not attached).
C22_NeverDetachesUnregistered == ~strayDetach

(***************************************************************************)
(* Order of the DragAndDrop callbacks                                      *)
(***************************************************************************)

\* ddLog holds the calls made since the latest press, the onStart of that
\* press included.  The call at index i follows an onStart with no onEnd
\* between the two.
InStartedGesture(i) ==
    \E j \in 1..(i - 1) :
        /\ ddLog[j].cb = "onStart"
        /\ \A k \in (j + 1)..(i - 1) : ddLog[k].cb # "onEnd"

CallsOf(name) == Cardinality({i \in DOMAIN ddLog : ddLog[i].cb = name})

\* C23: for a DragAndDrop given an onStart callback, every onDrag and every
\* onEnd invocation follows an onStart with no onEnd in between, so onEnd
\* never ran more often than onStart; and the document holds the move and
\* release handlers only while isDragging is true.
C23_CallbacksOrderedAndListenersOnlyInDrag ==
    /\ "onStart" \in ddCallbacks =>
          /\ \A i \in DOMAIN ddLog :
                ddLog[i].cb \in {"onDrag", "onEnd"} => InStartedGesture(i)
          /\ CallsOf("onEnd") <= CallsOf("onStart")
    /\ ddDoc # {} => isDragging

\* A second gesture, begun after the first was released, is being dragged.
C23_Witness ==
    /\ ddLive
    /\ ddCallbacks = CallbackNames
    /\ ddPresses = 2
    /\ ddUp.type = "mouseup"
    /\ Len(ddLog) = 2
    /\ ddLog[1].cb = "onStart"
    /\ ddLog[2].cb = "onDrag"
    /\ ddDoc = {"mousemove", "mouseup"}
    /\ isDragging

(***************************************************************************)
(* Release position of the DragAndDrop                                     *)
(***************************************************************************)

\* C24: handleMouseUp leaves currentPos and startPos as they are, wherever
\* the button is released; and the onEnd of a gesture receives the position
\* of the gesture's last move, or of the press when nothing moved, with the
\* delta of that position from the press.
C24_ReleaseReportsLastMove ==
    [][/\ ddOp' \in {"mouseup", "handleMouseUp"}
            => UNCHANGED <<currentPos, startPos>>
       /\ (ddOp' = "mouseup" /\ InGesture /\ "onEnd" \in ddCallbacks)
            => /\ Len(ddLog') = Len(ddLog) + 1
               /\ LET end == ddLog'[Len(ddLog')]
                  IN  /\ end.cb = "onEnd"
                      /\ end.event = ddUp'
                      /\ end.pos = GestureEnd
                      /\ end.delta = [x |-> GestureEnd.x - ddPress.x,
                                      y |-> GestureEnd.y - ddPress.y]]_vars

\* A gesture was moved and then released somewhere else than its last move
\* and its press.
C24_Witness ==
    /\ ddLive
    /\ ddOp = "mouseup"
    /\ ddPhase = "released"
    /\ "onEnd" \in ddCallbacks
    /\ ddMoves # <<>>
    /\ EventPos(ddUp) # GestureEnd
    /\ EventPos(ddUp) # ddPress
    /\ GestureEnd # ddPress
    /\ ddLog[Len(ddLog)].cb = "onEnd"
    /\ ddLog[Len(ddLog)].pos = GestureEnd
    /\ currentPos = GestureEnd

====
